---- MODULE Spec2Model ----
(***************************************************************************)
(* Task lifecycle streaming of backend/api.py: the registry active_tasks,  *)
(* the create-task handler run_task, cancel_task, and the two polling      *)
(* loops that turn a remote task handle into an event stream:              *)
(*   - stream_task_updates_enhanced (api.py 253-397), and                  *)
(*   - the event_generator of stream_task_events (api.py 817-939).         *)
(* The remote service is the environment: every refresh() either raises or *)
(* replaces the handle's fields by an arbitrary snapshot.                  *)
(***************************************************************************)
EXTENDS Integers, Sequences, FiniteSets, TLC

(* ------------------------------ bounds --------------------------------- *)

\* Tick budget of both streaming loops.  The code's max_retries is 300
\* (api.py 272 and 819); the model runs the same loops with a smaller budget.
MaxRetries == 2

\* Tick budget of the non-streaming loop of AgentClient.process_message.
\* The code's max_retries is 60 (api.py 178).
NonStreamRetries == 2

\* Tick budget of the runs that follow the step events of
\* stream_task_updates_enhanced: past the tick (i = 30) at which the list of
\* steps has been gone through.
StepTicks == 31

\* Client actions in one run of the model: run_task calls, cancel_task calls,
\* stream requests and disconnects together.
MaxRequests == 3

(* --------------------------- program constants ------------------------- *)

\* api.py 281: a step event is due on the ticks with i % 10 == 0.
StepEvery == 10

\* api.py 339: a heartbeat is due on the ticks with i % 5 == 0.
HeartbeatEvery == 5

(* ------------------------------ values --------------------------------- *)

\* Python's None for the optional string fields.
None == "<None>"

\* A local variable that has not been assigned yet.
Unbound == "<unbound>"

\* Values of the loosely typed field task.result: the attribute is missing,
\* None, a plain string, a dict, or a value of another type (a list, a number).
AbsentV == [type |-> "absent"]
NoneV == [type |-> "none"]
StrV(s) == [type |-> "str", s |-> s]
DictV(m) == [type |-> "dict", m |-> m]
OtherV(truthy) == [type |-> "other", truthy |-> truthy]

\* The keys a dict result may carry, in insertion order.
Keys == <<"content", "response", "message", "text", "answer">>

\* bool(v) of a result value: a non-empty string, a dict with a key, or a
\* non-zero, non-empty value of another type.
Truthy(v) ==
  CASE v.type = "str"   -> v.s # ""
    [] v.type = "dict"  -> \E i \in DOMAIN Keys : v.m[Keys[i]] # None
    [] v.type = "other" -> v.truthy
    [] OTHER            -> FALSE

\* bool(x) of an optional string.
TruthyStr(x) == x \notin {None, ""}

\* The task ids a handle may carry (task.id of the SDK object, or the
\* millisecond timestamp fallback of api.py 171 and 497, which two requests
\* of the same millisecond share).
TaskIds == {"t1", "t2"}

\* Raw status strings the remote service may report.
RawStatuses == {None, "running", "COMPLETED", "Failed", "TIMEOUT"}

Results == {NoneV, StrV("Hello")}
Urls == {None, "http://x"}
Errors == {None, "boom"}

\* The fields a successful refresh() may leave on a handle.
Snapshots == [status : RawStatuses, result : Results, web_url : Urls, error : Errors]

\* What is kept of a handle between two refresh() calls: task.status and
\* task.error are only ever read in the statements that follow a successful
\* refresh() (api.py 180-193, 276-322, 570-571, 830-871), so their values are
\* carried by the refresh outcome; task.web_url is read again after the loops
\* (api.py 367, 912), and task.result is kept beside it.
Kept(snap) == [result |-> snap.result, web_url |-> snap.web_url]

\* The fields of a handle that has never been refreshed.
FreshSnapshot == [result |-> NoneV, web_url |-> None]

\* The outcome of one refresh(): it raises, or the handle takes a snapshot.
Raises == [raises |-> TRUE]
Outcomes == {Raises} \cup [raises : {FALSE}, snap : Snapshots]

\* Status strings beyond RawStatuses: the other spellings and synonyms of the
\* lifecycle vocabulary, and a status outside of it.
WideStatuses ==
  RawStatuses \cup {"pending", "Complete", "Done", "Success",
                    "ERROR", "cancelled", "unknown_status_xyz", "initiated"}

\* str.lower() on the status vocabulary.
LowerTable ==
  [x \in (WideStatuses \ {None}) |->
     CASE x = "COMPLETED" -> "completed"
       [] x = "Failed"    -> "failed"
       [] x = "TIMEOUT"   -> "timeout"
       [] x = "Complete"  -> "complete"
       [] x = "Done"      -> "done"
       [] x = "Success"   -> "success"
       [] x = "ERROR"     -> "error"
       [] OTHER           -> x]

Lower(x) == LowerTable[x]

\* task.status.lower() if task.status else "unknown"   (api.py 181, 277, 831)
StatusOf(snap) == IF TruthyStr(snap.status) THEN Lower(snap.status) ELSE "unknown"

\* IsCompletedStatus with the in-flight status running taken for a completed
\* one.
IsCompletedStatus_Eager(st) == st \in {"completed", "complete", "running"}

\* current_status in ["completed", "complete"]   (api.py 183, 293, 844)
IsCompletedStatus(st) == st \in {"completed", "complete"}

\* current_status == "failed"   (api.py 190, 321, 870)
IsFailedStatus(st) == st = "failed"

\* a or b
Or(a, b) == IF TruthyStr(a) THEN a ELSE b

\* d.get(k): the value under k, None when the key is missing.
Get(d, k) == d.m[k]

\* str(d) of a dict: "{'content': 'X', 'text': 'T'}".
RECURSIVE ReprItems(_, _, _)
ReprItems(d, i, first) ==
  IF i > Len(Keys) THEN ""
  ELSE IF Get(d, Keys[i]) = None THEN ReprItems(d, i + 1, first)
  ELSE (IF first THEN "" ELSE ", ") \o "'" \o Keys[i] \o "': '" \o Get(d, Keys[i])
         \o "'" \o ReprItems(d, i + 1, FALSE)

Repr(d) == "{" \o ReprItems(d, 1, TRUE) \o "}"

\* task.result.get('content') or task.result.get('response') or str(task.result)
\* (api.py 227, 300, 580, 851; thread_api.py 352)
DictResult(d) == Or(Get(d, "content"), Or(Get(d, "response"), Repr(d)))

UrlSentence(url) == "Task completed successfully. View details at: " \o url
DefaultSentence == "Task completed successfully."

\* The local `result` of the inline extractions (api.py 295-300, 846-851;
\* thread_api.py 348-352): the string, the dict's value, else None.
InlineResult(snap) ==
  IF Truthy(snap.result)
  THEN CASE snap.result.type = "str"  -> snap.result.s
         [] snap.result.type = "dict" -> DictResult(snap.result)
         [] OTHER                     -> None
  ELSE None

\* The inline result extraction of the streaming loops (api.py 295-305 and
\* 846-856): the result, else the web_url sentence, else the default.
ExtractInline(snap) ==
  LET result == InlineResult(snap)
  IN  IF TruthyStr(result) THEN result
      ELSE IF TruthyStr(snap.web_url) THEN UrlSentence(snap.web_url)
      ELSE DefaultSentence

\* An exception leaving a helper instead of a return value.
Raised == "<raised>"

\* _extract_result without the isinstance(task.result, dict) test: .get is
\* called on whatever truthy value is not a string.
ExtractResult_GetOnAnyType(snap) ==
  IF Truthy(snap.result) /\ snap.result.type = "str" THEN snap.result.s
  ELSE IF Truthy(snap.result) /\ snap.result.type = "dict" THEN DictResult(snap.result)
  ELSE IF Truthy(snap.result) THEN Raised
  ELSE IF TruthyStr(snap.web_url) THEN UrlSentence(snap.web_url)
  ELSE DefaultSentence

\* _extract_result probing response before content.
ExtractResult_ResponseFirst(snap) ==
  IF Truthy(snap.result) /\ snap.result.type = "str" THEN snap.result.s
  ELSE IF Truthy(snap.result) /\ snap.result.type = "dict"
  THEN Or(Get(snap.result, "response"), Or(Get(snap.result, "content"), Repr(snap.result)))
  ELSE IF TruthyStr(snap.web_url) THEN UrlSentence(snap.web_url)
  ELSE DefaultSentence

\* AgentClient._extract_result (api.py 220-234).
ExtractResult(snap) ==
  IF Truthy(snap.result) /\ snap.result.type = "str" THEN snap.result.s
  ELSE IF Truthy(snap.result) /\ snap.result.type = "dict" THEN DictResult(snap.result)
  ELSE IF TruthyStr(snap.web_url) THEN UrlSentence(snap.web_url)
  ELSE DefaultSentence

\* The forced-completion sentence of the timeout branch (api.py 368, 913).
ForcedSentence(url) == "Task processing completed. View details at: " \o url

(* ------------------------------ state ---------------------------------- *)

VARIABLES
  active_tasks,   \* the registry: task_id -> stored entry          (api.py 118)
  tasks,          \* the task handles created so far, by creation order
  requests,       \* client actions so far (orders created_at)
  sess,           \* the streaming sessions: one generator object each
  trace,          \* per session: refresh calls, emitted items, signals
  last_call,      \* the last call answered to a caller: op, argument, answer
  threads,        \* thread_id -> thread                    (thread_api.py 76)
  messages        \* message_id -> message                  (thread_api.py 77)

vars == <<active_tasks, tasks, requests, sess, trace, last_call, threads,
          messages>>

\* The generator objects, one per stream request.
Sessions == 1 .. MaxRequests

\* An answered call: its number among the requests, the operation, its
\* argument and what the caller got.
Call(at, op, arg, out) == [at |-> at, op |-> op, arg |-> arg, out |-> out]

\* No call has been answered yet.
NoCall == Call(0, "none", None, None)

IdleSession ==
  [kind |-> "none", pc |-> "idle", task_id |-> None, task |-> 0,
   i |-> 0, max_retries |-> 0, current_status |-> Unbound,
   current_step_index |-> 0, disconnected |-> FALSE, message_id |-> None]

Init ==
  /\ active_tasks = << >>
  /\ tasks = << >>
  /\ requests = 0
  /\ sess = [s \in Sessions |-> IdleSession]
  /\ trace = [s \in Sessions |-> << >>]
  /\ last_call = NoCall
  /\ threads = << >>
  /\ messages = << >>

(* --------------------------- trace items ------------------------------- *)

\* A JSON event written to the stream.
Event(status, result, error, step) ==
  [kind |-> "event", status |-> status, result |-> result, error |-> error,
   current_step |-> step]

\* The end-of-stream marker "[DONE]".
DoneMarker == [kind |-> "done", status |-> None, result |-> None, error |-> None,
               current_step |-> None]

\* The SSE comment ": heartbeat" of event_generator (api.py 890).
HeartbeatComment == [kind |-> "comment", status |-> "heartbeat", result |-> None,
                     error |-> None, current_step |-> None]

\* Bookkeeping items: a refresh() call, the client's disconnect, a cancel_task
\* call for the session's task_id.
Mark(kind) == [kind |-> kind, status |-> None, result |-> None, error |-> None,
               current_step |-> None]

(* ------------------------------ helpers -------------------------------- *)

\* dict.pop(task_id, None) and `task_id in active_tasks`.
Registered(t) == t \in DOMAIN active_tasks
Pop(reg, t) == [k \in (DOMAIN reg) \ {t} |-> reg[k]]

\* active_tasks[task_id] = entry: a plain dict store.
Store(reg, t, entry) == [k \in (DOMAIN reg) \cup {t} |-> IF k = t THEN entry ELSE reg[k]]

Emit(s, items) == trace' = [trace EXCEPT ![s] = @ \o items]

Running(s) == sess[s].pc \notin {"idle", "done"}

\* Generator objects are taken in order of creation.
NextFree(s) == /\ sess[s].pc = "idle"
               /\ \A r \in Sessions : r < s => sess[r].pc # "idle"

\* HTTP status codes of the answers (api.py 550, 701, 706).
HttpOk == 200
HttpNotFound == 404
HttpServerError == 500

(* -------------------- AgentClient.process_message ---------------------- *)

\* What process_message returns to run_task.
Outcome(status, result, web_url, error) ==
  [status |-> status, result |-> result, web_url |-> web_url, error |-> error]

\* The loop goes on to its next tick.
Continue == Outcome("<continue>", None, None, None)

\* One tick of the non-streaming loop (api.py 180-197): a raising refresh()
\* leaves through the handler of api.py 212-218, a completed or failed status
\* returns, any other status sleeps and goes on.
NonStreamTick(o) ==
  IF o.raises THEN Outcome("error", None, None, "refresh raised")
  ELSE IF IsCompletedStatus(StatusOf(o.snap))
  THEN Outcome("completed", ExtractResult(o.snap), o.snap.web_url, None)
  ELSE IF IsFailedStatus(StatusOf(o.snap))
  THEN Outcome("failed", None, None, o.snap.error)
  ELSE Continue

\* Everything the non-streaming loop (api.py 176-203) may return from tick k
\* on; the end of the budget returns the timeout outcome.
RECURSIVE NonStreamOutcomes(_)
NonStreamOutcomes(k) ==
  IF k >= NonStreamRetries
  THEN {Outcome("timeout", None, None, "Task timed out")}
  ELSE LET ticks == {NonStreamTick(o) : o \in Outcomes}
       IN  (ticks \ {Continue}) \cup
           (IF Continue \in ticks THEN NonStreamOutcomes(k + 1) ELSE {})

\* A run that examines single calls answers one call; the requests before it are the
\* creations of its task.
FirstCall ==
  /\ last_call.op \in {"none", "run_task: HTTPException"}
  /\ requests = Len(tasks)

\* AgentClient.process_message(message, stream=False) is called and returns
\* (api.py 134-218); the handle it polled is local to the call.
CallProcessMessage ==
  /\ FirstCall
  /\ \E r \in NonStreamOutcomes(0) :
       last_call' = Call(requests, "process_message", None, r)
  /\ UNCHANGED <<active_tasks, tasks, requests, sess, trace>>
  /\ UNCHANGED <<threads, messages>>

(* ------------------------------ run_task ------------------------------- *)

\* The entry run_task stores (api.py 503-512); thread_id, org_id and prompt
\* are passed through untouched and left out.
Entry(task, created, status, result, web_url) ==
  [task |-> task, created_at |-> created, status |-> status, result |-> result,
   web_url |-> web_url]

\* run_task when process_message reports an error (agent.run or refresh()
\* raised): HTTP 500 at api.py 491-492, the registry is not touched.
RunTaskCreateFails ==
  /\ requests < MaxRequests
  /\ requests' = requests + 1
  /\ UNCHANGED <<active_tasks, tasks, sess, trace, last_call>>
  /\ UNCHANGED <<threads, messages>>

\* run_task with stream=true: process_message returns the handle and its id,
\* the entry is stored under that id (api.py 503), and building the response
\* at api.py 535 names stream_task_updates, which the module does not define:
\* the NameError leaves through api.py 548-550 as HTTP 500 with the entry kept.
RunTaskStream(t) ==
  /\ requests < MaxRequests
  /\ requests' = requests + 1
  /\ tasks' = Append(tasks, FreshSnapshot)
  /\ active_tasks' = Store(active_tasks, t,
                           Entry(Len(tasks) + 1, requests + 1, "initiated", None, None))
  /\ last_call' = Call(requests + 1, "run_task: HTTPException", t, HttpServerError)
  /\ UNCHANGED <<sess, trace>>
  /\ UNCHANGED <<threads, messages>>

\* run_task with stream=false: the outcome of the non-streaming loop is
\* stored (no handle: result.get("task") is None) and returned.
RunTaskNoStream(t) ==
  /\ requests < MaxRequests
  /\ requests' = requests + 1
  /\ \E r \in NonStreamOutcomes(0) :
       /\ r.status # "error"
       /\ active_tasks' = Store(active_tasks, t,
                                Entry(0, requests + 1, r.status, r.result, r.web_url))
  /\ UNCHANGED <<tasks, sess, trace, last_call>>
  /\ UNCHANGED <<threads, messages>>

(* ----------------------------- cancel_task ----------------------------- *)


\* cancel_task that also ends every generator that is running, whatever its
\* task id.
CancelTask_EndsEverySession(t) ==
  /\ requests < MaxRequests
  /\ requests' = requests + 1
  /\ Registered(t)
  /\ active_tasks' = Pop(active_tasks, t)
  /\ sess' = [s \in Sessions |->
                IF Running(s) THEN [sess[s] EXCEPT !.pc = "done"] ELSE sess[s]]
  /\ last_call' = Call(requests + 1, "cancel_task", t, HttpOk)
  /\ UNCHANGED <<tasks, trace>>
  /\ UNCHANGED <<threads, messages>>

\* cancel_task for a registered id (api.py 696-715): the entry is popped and
\* the removal message is returned.  Nothing else is told to the sessions.
CancelTask(t) ==
  /\ requests < MaxRequests
  /\ requests' = requests + 1
  /\ Registered(t)
  /\ active_tasks' = Pop(active_tasks, t)
  /\ trace' = [s \in Sessions |->
                 IF Running(s) /\ sess[s].task_id = t
                 THEN Append(trace[s], Mark("cancel")) ELSE trace[s]]
  /\ last_call' = Call(requests + 1, "cancel_task", t, HttpOk)
  /\ UNCHANGED <<tasks, sess>>
  /\ UNCHANGED <<threads, messages>>

\* cancel_task answering 200 for an id that is not registered.
CancelTaskNotFound_AnswersOk(t) ==
  /\ requests < MaxRequests
  /\ requests' = requests + 1
  /\ ~Registered(t)
  /\ last_call' = Call(requests + 1, "cancel_task", t, HttpOk)
  /\ UNCHANGED <<active_tasks, tasks, sess, trace>>
  /\ UNCHANGED <<threads, messages>>

\* cancel_task for an id that is not registered (api.py 700-701, 711-712):
\* HTTPException 404 "Task not found"; the registry is not touched.
CancelTaskNotFound(t) ==
  /\ requests < MaxRequests
  /\ requests' = requests + 1
  /\ ~Registered(t)
  /\ last_call' = Call(requests + 1, "cancel_task", t, HttpNotFound)
  /\ UNCHANGED <<active_tasks, tasks, sess, trace>>
  /\ UNCHANGED <<threads, messages>>

(* ------------------- stream_task_events / event_generator -------------- *)

\* stream_task_events for an id that is not registered (api.py 810-812,
\* 951-952): HTTPException 404 "Task not found"; no generator is created.
AttachStreamNotFound(t) ==
  /\ requests < MaxRequests
  /\ requests' = requests + 1
  /\ ~Registered(t)
  /\ last_call' = Call(requests + 1, "stream_task_events: HTTPException", t, HttpNotFound)
  /\ UNCHANGED <<active_tasks, tasks, sess, trace>>
  /\ UNCHANGED <<threads, messages>>

\* stream_task_events for a registered id (api.py 810-815, 941-949): a
\* generator over the stored handle is returned.
\* No check is made for a generator that already polls this id.
AttachStream(s, t) ==
  /\ requests < MaxRequests
  /\ requests' = requests + 1
  /\ NextFree(s)
  /\ Registered(t)
  /\ sess' = [sess EXCEPT ![s] =
                [IdleSession EXCEPT !.kind = "attached", !.pc = "check",
                                    !.task_id = t, !.task = active_tasks[t].task,
                                    !.max_retries = MaxRetries]]
  /\ UNCHANGED <<active_tasks, tasks, trace, last_call>>
  /\ UNCHANGED <<threads, messages>>

\* The client of an attached stream goes away: request.is_disconnected()
\* answers True from now on.
Disconnect(s) ==
  /\ requests < MaxRequests
  /\ requests' = requests + 1
  /\ sess[s].kind = "attached"
  /\ Running(s)
  /\ ~sess[s].disconnected
  /\ sess' = [sess EXCEPT ![s].disconnected = TRUE]
  /\ Emit(s, <<Mark("disconnect")>>)
  /\ UNCHANGED <<active_tasks, tasks, last_call>>
  /\ UNCHANGED <<threads, messages>>

\* The finally clause of event_generator (api.py 936-939); st is the binding
\* of current_status the generator ends with.
AttachedCleanup(s, st) ==
  /\ active_tasks' = Pop(active_tasks, sess[s].task_id)
  /\ sess' = [sess EXCEPT ![s].pc = "done", ![s].current_status = st]

\* AttachedCheck without the is_disconnected() test: the loop goes on to
\* refresh() whether or not the client is still there.
AttachedCheck_NoDisconnectTest(s) ==
  /\ sess[s].kind = "attached" /\ sess[s].pc = "check"
  /\ sess[s].i < sess[s].max_retries
  /\ sess' = [sess EXCEPT ![s].pc = "poll"]
  /\ UNCHANGED <<active_tasks, tasks, requests, trace, last_call>>
  /\ UNCHANGED <<threads, messages>>

\* Top of the while loop with budget left and the client connected
\* (api.py 822-827): go on to refresh().
AttachedCheck(s) ==
  /\ sess[s].kind = "attached" /\ sess[s].pc = "check"
  /\ sess[s].i < sess[s].max_retries
  /\ ~sess[s].disconnected
  /\ sess' = [sess EXCEPT ![s].pc = "poll"]
  /\ UNCHANGED <<active_tasks, tasks, requests, trace, last_call>>
  /\ UNCHANGED <<threads, messages>>

\* Top of the while loop, client gone (api.py 825-827): break; the timeout
\* branch is skipped (retry_count < max_retries) and the finally clause runs.
AttachedDisconnected(s) ==
  /\ sess[s].kind = "attached" /\ sess[s].pc = "check"
  /\ sess[s].i < sess[s].max_retries
  /\ sess[s].disconnected
  /\ AttachedCleanup(s, sess[s].current_status)
  /\ UNCHANGED <<tasks, requests, trace, last_call>>
  /\ UNCHANGED <<threads, messages>>

\* refresh() raises (api.py 896-904), or the stored handle is None and
\* task.refresh() raises AttributeError: one error event, break, finally.
AttachedPollRaises(s) ==
  /\ sess[s].kind = "attached" /\ sess[s].pc = "poll"
  /\ Emit(s, <<Mark("refresh"),
               Event("error", None, "Failed to refresh task", None)>>)
  /\ AttachedCleanup(s, sess[s].current_status)
  /\ UNCHANGED <<tasks, requests, last_call>>
  /\ UNCHANGED <<threads, messages>>

\* refresh() succeeds with a completed status (api.py 844-868).
AttachedPollCompleted(s, snap) ==
  /\ sess[s].kind = "attached" /\ sess[s].pc = "poll"
  /\ sess[s].task # 0
  /\ IsCompletedStatus(StatusOf(snap))
  /\ tasks' = [tasks EXCEPT ![sess[s].task] = Kept(snap)]
  /\ Emit(s, <<Mark("refresh"),
               Event("completed", ExtractInline(snap), None, None),
               DoneMarker>>)
  /\ AttachedCleanup(s, StatusOf(snap))
  /\ UNCHANGED <<requests, last_call>>
  /\ UNCHANGED <<threads, messages>>

\* refresh() succeeds with the failed status (api.py 870-883).
AttachedPollFailed(s, snap) ==
  /\ sess[s].kind = "attached" /\ sess[s].pc = "poll"
  /\ sess[s].task # 0
  /\ IsFailedStatus(StatusOf(snap))
  /\ tasks' = [tasks EXCEPT ![sess[s].task] = Kept(snap)]
  /\ Emit(s, <<Mark("refresh"),
               Event("failed", None,
                     IF TruthyStr(snap.error) THEN snap.error
                     ELSE "Task failed with unknown error", None),
               DoneMarker>>)
  /\ AttachedCleanup(s, StatusOf(snap))
  /\ UNCHANGED <<requests, last_call>>
  /\ UNCHANGED <<threads, messages>>

\* refresh() succeeds with any other status (api.py 885-894): the status is
\* passed through as a status event, the heartbeat comment follows, and
\* retry_count is incremented after the sleep.
AttachedPollContinues(s, snap) ==
  /\ sess[s].kind = "attached" /\ sess[s].pc = "poll"
  /\ sess[s].task # 0
  /\ ~IsCompletedStatus(StatusOf(snap)) /\ ~IsFailedStatus(StatusOf(snap))
  /\ tasks' = [tasks EXCEPT ![sess[s].task] = Kept(snap)]
  /\ Emit(s, <<Mark("refresh"),
               Event(StatusOf(snap), None, None, None),
               HeartbeatComment>>)
  /\ sess' = [sess EXCEPT ![s].pc = "check", ![s].i = @ + 1,
                          ![s].current_status = StatusOf(snap)]
  /\ UNCHANGED <<active_tasks, requests, last_call>>
  /\ UNCHANGED <<threads, messages>>

\* The event of the timeout branch of event_generator (api.py 907-926): a
\* forced completed event and [DONE] when the handle has a web_url, else an
\* event of status failed and no [DONE].
AttachedTimeoutItems(snap) ==
  IF TruthyStr(snap.web_url)
  THEN <<Event("completed", ForcedSentence(snap.web_url), None, None), DoneMarker>>
  ELSE <<Event("failed", None, "Task timed out after 600 seconds", None)>>

\* The while condition fails: retry_count reached max_retries.
AttachedTimeout(s) ==
  /\ sess[s].kind = "attached" /\ sess[s].pc = "check"
  /\ sess[s].i >= sess[s].max_retries
  /\ Emit(s, AttachedTimeoutItems(tasks[sess[s].task]))
  /\ AttachedCleanup(s, sess[s].current_status)
  /\ UNCHANGED <<tasks, requests, last_call>>
  /\ UNCHANGED <<threads, messages>>

(* --------------------- stream_task_updates_enhanced -------------------- *)

\* steps (api.py 268), indexed from 0 as in the code.
Steps == <<"Analyzing request", "Processing task", "Generating response">>

Min(a, b) == IF a < b THEN a ELSE b

\* A consumer starts iterating stream_task_updates_enhanced(task, task_id)
\* for a registered streaming task: the generator yields the initiated event
\* (api.py 259-265) before its first refresh().  The generator takes no
\* request object and never reads or writes active_tasks.
StartEnhanced(s, t) ==
  /\ requests < MaxRequests
  /\ requests' = requests + 1
  /\ NextFree(s)
  /\ Registered(t)
  /\ active_tasks[t].task # 0
  /\ sess' = [sess EXCEPT ![s] =
                [IdleSession EXCEPT !.kind = "enhanced", !.pc = "loop",
                                    !.task_id = t, !.task = active_tasks[t].task,
                                    !.max_retries = MaxRetries]]
  /\ Emit(s, <<Event("initiated", None, None, "Initializing task")>>)
  /\ UNCHANGED <<active_tasks, tasks, last_call>>
  /\ UNCHANGED <<threads, messages>>

\* The same generator run with the budget StepTicks, long enough for the
\* list of steps to be exhausted (api.py 259-272).
StartEnhancedLong(s, t) ==
  /\ requests < MaxRequests
  /\ requests' = requests + 1
  /\ NextFree(s)
  /\ Registered(t)
  /\ active_tasks[t].task # 0
  /\ sess' = [sess EXCEPT ![s] =
                [IdleSession EXCEPT !.kind = "enhanced", !.pc = "loop",
                                    !.task_id = t, !.task = active_tasks[t].task,
                                    !.max_retries = StepTicks]]
  /\ Emit(s, <<Event("initiated", None, None, "Initializing task")>>)
  /\ UNCHANGED <<active_tasks, tasks, last_call>>
  /\ UNCHANGED <<threads, messages>>

\* The step event of a tick (api.py 281-290): due when i % 10 == 0.
StepItems(s) ==
  IF sess[s].i % StepEvery = 0 /\ sess[s].current_step_index < Len(Steps)
  THEN <<Event("running", None, None, Steps[sess[s].current_step_index + 1])>>
  ELSE << >>

StepIndexAfter(s) ==
  IF sess[s].i % StepEvery = 0 /\ sess[s].current_step_index < Len(Steps)
  THEN Min(sess[s].current_step_index + 1, Len(Steps) - 1)
  ELSE sess[s].current_step_index

\* The heartbeat event of a tick (api.py 339-344): due when i % 5 == 0.
HeartbeatItems(s) ==
  IF sess[s].i % HeartbeatEvery = 0
  THEN <<Event("heartbeat", None, None, None)>>
  ELSE << >>

\* One tick whose refresh() raises (api.py 349-359): a recoverable error
\* event, and the for loop goes on; current_status keeps its old binding.
EnhancedTickRaises(s) ==
  /\ sess[s].kind = "enhanced" /\ sess[s].pc = "loop"
  /\ sess[s].i < sess[s].max_retries
  /\ Emit(s, <<Mark("refresh"),
               Event("error", None, "Failed to refresh task", None)>>)
  /\ sess' = [sess EXCEPT ![s].i = @ + 1]
  /\ UNCHANGED <<active_tasks, tasks, requests, last_call>>
  /\ UNCHANGED <<threads, messages>>

\* One tick that sees a completed status (api.py 293-319): break, and the
\* timeout branch is skipped because current_status is completed.
EnhancedTickCompleted(s, snap) ==
  /\ sess[s].kind = "enhanced" /\ sess[s].pc = "loop"
  /\ sess[s].i < sess[s].max_retries
  /\ IsCompletedStatus(StatusOf(snap))
  /\ tasks' = [tasks EXCEPT ![sess[s].task] = Kept(snap)]
  /\ Emit(s, <<Mark("refresh")>> \o StepItems(s) \o
             <<Event("completed", ExtractInline(snap), None, None), DoneMarker>>)
  /\ sess' = [sess EXCEPT ![s].pc = "done", ![s].current_status = StatusOf(snap),
                          ![s].current_step_index = StepIndexAfter(s)]
  /\ UNCHANGED <<active_tasks, requests, last_call>>
  /\ UNCHANGED <<threads, messages>>

\* One tick that sees the failed status (api.py 321-336).
EnhancedTickFailed(s, snap) ==
  /\ sess[s].kind = "enhanced" /\ sess[s].pc = "loop"
  /\ sess[s].i < sess[s].max_retries
  /\ IsFailedStatus(StatusOf(snap))
  /\ tasks' = [tasks EXCEPT ![sess[s].task] = Kept(snap)]
  /\ Emit(s, <<Mark("refresh")>> \o StepItems(s) \o
             <<Event("failed", None,
                     IF TruthyStr(snap.error) THEN snap.error
                     ELSE "Task failed with unknown error", None),
               DoneMarker>>)
  /\ sess' = [sess EXCEPT ![s].pc = "done", ![s].current_status = StatusOf(snap),
                          ![s].current_step_index = StepIndexAfter(s)]
  /\ UNCHANGED <<active_tasks, requests, last_call>>
  /\ UNCHANGED <<threads, messages>>

\* EnhancedTickContinues passing the status through as a status event, the
\* way event_generator does.
EnhancedTickContinues_PassThrough(s, snap) ==
  /\ sess[s].kind = "enhanced" /\ sess[s].pc = "loop"
  /\ sess[s].i < sess[s].max_retries
  /\ ~IsCompletedStatus(StatusOf(snap)) /\ ~IsFailedStatus(StatusOf(snap))
  /\ tasks' = [tasks EXCEPT ![sess[s].task] = Kept(snap)]
  /\ Emit(s, <<Mark("refresh"), Event(StatusOf(snap), None, None, None)>>
             \o StepItems(s) \o HeartbeatItems(s))
  /\ sess' = [sess EXCEPT ![s].i = @ + 1, ![s].current_status = StatusOf(snap),
                          ![s].current_step_index = StepIndexAfter(s)]
  /\ UNCHANGED <<active_tasks, requests, last_call>>
  /\ UNCHANGED <<threads, messages>>

\* One tick that sees any other status (api.py 338-347): the heartbeat when
\* due, the sleep, and the next i.
EnhancedTickContinues(s, snap) ==
  /\ sess[s].kind = "enhanced" /\ sess[s].pc = "loop"
  /\ sess[s].i < sess[s].max_retries
  /\ ~IsCompletedStatus(StatusOf(snap)) /\ ~IsFailedStatus(StatusOf(snap))
  /\ tasks' = [tasks EXCEPT ![sess[s].task] = Kept(snap)]
  /\ Emit(s, <<Mark("refresh")>> \o StepItems(s) \o HeartbeatItems(s))
  /\ sess' = [sess EXCEPT ![s].i = @ + 1, ![s].current_status = StatusOf(snap),
                          ![s].current_step_index = StepIndexAfter(s)]
  /\ UNCHANGED <<active_tasks, requests, last_call>>
  /\ UNCHANGED <<threads, messages>>

\* What follows the exhausted for loop (api.py 361-397).  Reading
\* current_status when no refresh() ever succeeded raises UnboundLocalError,
\* which the outer handler turns into an error event and [DONE]; otherwise a
\* forced completed event when the handle has a web_url, else the timeout
\* event, each followed by [DONE].
EnhancedTimeoutItems(cur, snap) ==
  IF cur = Unbound
  THEN <<Event("error", None, "local variable 'current_status' referenced before assignment", None),
         DoneMarker>>
  ELSE IF TruthyStr(snap.web_url)
  THEN <<Event("completed", ForcedSentence(snap.web_url), None, None), DoneMarker>>
  ELSE <<Event("timeout", None, "Task timed out after 600 seconds", None), DoneMarker>>

EnhancedExhausted(s) ==
  /\ sess[s].kind = "enhanced" /\ sess[s].pc = "loop"
  /\ sess[s].i >= sess[s].max_retries
  /\ Emit(s, EnhancedTimeoutItems(sess[s].current_status, tasks[sess[s].task]))
  /\ sess' = [sess EXCEPT ![s].pc = "done"]
  /\ UNCHANGED <<active_tasks, tasks, requests, last_call>>
  /\ UNCHANGED <<threads, messages>>

(* --------------------------- specification ----------------------------- *)

Next ==
  \/ RunTaskCreateFails
  \/ \E t \in TaskIds : RunTaskStream(t)
  \/ \E t \in TaskIds : RunTaskNoStream(t)
  \/ \E t \in TaskIds : CancelTask(t)
  \/ \E t \in TaskIds : CancelTaskNotFound(t)
  \/ \E t \in TaskIds : AttachStreamNotFound(t)
  \/ \E s \in Sessions, t \in TaskIds : AttachStream(s, t)
  \/ \E s \in Sessions : Disconnect(s)
  \/ \E s \in Sessions : AttachedCheck(s)
  \/ \E s \in Sessions : AttachedDisconnected(s)
  \/ \E s \in Sessions : AttachedPollRaises(s)
  \/ \E s \in Sessions, snap \in Snapshots : AttachedPollCompleted(s, snap)
  \/ \E s \in Sessions, snap \in Snapshots : AttachedPollFailed(s, snap)
  \/ \E s \in Sessions, snap \in Snapshots : AttachedPollContinues(s, snap)
  \/ \E s \in Sessions : AttachedTimeout(s)
  \/ \E s \in Sessions, t \in TaskIds : StartEnhanced(s, t)
  \/ \E s \in Sessions : EnhancedTickRaises(s)
  \/ \E s \in Sessions, snap \in Snapshots : EnhancedTickCompleted(s, snap)
  \/ \E s \in Sessions, snap \in Snapshots : EnhancedTickFailed(s, snap)
  \/ \E s \in Sessions, snap \in Snapshots : EnhancedTickContinues(s, snap)
  \/ \E s \in Sessions : EnhancedExhausted(s)

Spec == Init /\ [][Next]_vars

(* ------------- one streaming session over the wide vocabulary ---------- *)

\* The snapshots of the classification runs: every spelling of WideStatuses
\* that is not already told apart by Spec, with and without a result and a
\* web_url.
ClassifierStatuses ==
  {None, "running", "pending", "COMPLETED", "Complete", "Done", "Success",
   "Failed", "ERROR", "cancelled", "unknown_status_xyz"}

WideSnapshots ==
  [status : ClassifierStatuses, result : Results, web_url : Urls, error : {None}]

\* The generator object and the task id of the classification runs.
TheSession == 1
TheTask == "t1"

\* One task is created with stream=true and one streaming loop, of either
\* kind, polls it.
NextWide ==
  \/ RunTaskStream(TheTask)
  \/ AttachStream(TheSession, TheTask)
  \/ AttachedCheck(TheSession)
  \/ AttachedPollRaises(TheSession)
  \/ \E snap \in WideSnapshots : AttachedPollCompleted(TheSession, snap)
  \/ \E snap \in WideSnapshots : AttachedPollFailed(TheSession, snap)
  \/ \E snap \in WideSnapshots : AttachedPollContinues(TheSession, snap)
  \/ AttachedTimeout(TheSession)
  \/ StartEnhanced(TheSession, TheTask)
  \/ EnhancedTickRaises(TheSession)
  \/ \E snap \in WideSnapshots : EnhancedTickCompleted(TheSession, snap)
  \/ \E snap \in WideSnapshots : EnhancedTickFailed(TheSession, snap)
  \/ \E snap \in WideSnapshots : EnhancedTickContinues(TheSession, snap)
  \/ EnhancedExhausted(TheSession)

SpecWide == Init /\ [][NextWide]_vars


(* --------------- single calls over the snapshot shapes ----------------- *)

\* The dicts task.result may be: each key missing or present, content and
\* response also present but empty.
DictMaps ==
  [content : {None, "", "X"}, response : {None, "", "R"}, message : {None, "M"},
   text : {None, "T"}, answer : {None, "A"}]

\* The shapes of task.result.
ShapeResults ==
  {AbsentV, NoneV, StrV(""), StrV("Hello"), OtherV(TRUE), OtherV(FALSE)}
    \cup {DictV(m) : m \in DictMaps}

\* Completed snapshots of every shape; summary and output are fields of the
\* remote task that no statement of the code reads.
ShapeSnapshots ==
  [status : {"COMPLETED"}, result : ShapeResults, summary : {NoneV, StrV("S")},
   output : {None, "O"}, web_url : {None, "", "http://x"}, error : {None}]

\* A successful refresh() that leaves snap on the handle.
Refreshed(snap) == [raises |-> FALSE, snap |-> snap]


\* AgentClient._extract_result(task) is called (api.py 186).
CallExtractResult(snap) ==
  /\ FirstCall
  /\ last_call' = Call(requests, "_extract_result", snap, ExtractResult(snap))
  /\ UNCHANGED <<active_tasks, tasks, requests, sess, trace>>
  /\ UNCHANGED <<threads, messages>>

\* run_task with stream=false whose first refresh() leaves snap: the return
\* value of process_message is stored and answered (api.py 176-195, 503-530).
RunTaskNoStreamShape(t, snap) ==
  /\ FirstCall
  /\ requests < MaxRequests
  /\ requests' = requests + 1
  /\ NonStreamTick(Refreshed(snap)) # Continue
  /\ LET r == NonStreamTick(Refreshed(snap))
     IN  /\ active_tasks' = Store(active_tasks, t,
                                  Entry(0, requests + 1, r.status, r.result, r.web_url))
         /\ last_call' = Call(requests + 1, "run_task", snap,
                              [status |-> r.status, result |-> r.result])
  /\ UNCHANGED <<tasks, sess, trace>>
  /\ UNCHANGED <<threads, messages>>

\* get_task_status answering an error status, and nothing else, when its
\* refresh() raises.
GetTaskStatusAnswer_ErrorOnRaise(entry, o) ==
  IF entry.task # 0 /\ o.raises
  THEN [status |-> "error", result |-> None, web_url |-> None]
  ELSE [status |-> entry.status, result |-> entry.result, web_url |-> entry.web_url]

\* What get_task_status answers and stores (api.py 559-606) for a stored
\* entry and the outcome of its refresh(): an entry without a handle, or a
\* refresh() that raises, answers the stored values.
GetTaskStatusAnswer(entry, o) ==
  IF entry.task = 0 \/ o.raises
  THEN [status |-> entry.status, result |-> entry.result, web_url |-> entry.web_url]
  ELSE LET current_status == IF TruthyStr(o.snap.status) THEN Lower(o.snap.status)
                             ELSE entry.status
           web_url == o.snap.web_url
           result ==
             IF IsCompletedStatus(current_status) /\ ~TruthyStr(entry.result)
             THEN IF Truthy(o.snap.result)
                  THEN CASE o.snap.result.type = "str"  -> o.snap.result.s
                         [] o.snap.result.type = "dict" -> DictResult(o.snap.result)
                         [] OTHER                       -> entry.result
                  ELSE IF TruthyStr(web_url) THEN UrlSentence(web_url)
                  ELSE DefaultSentence
             ELSE entry.result
       IN  [status |-> current_status, result |-> result, web_url |-> web_url]

\* get_task_status for a registered id (api.py 553-606).
GetTaskStatus(t, o) ==
  /\ requests < MaxRequests
  /\ requests' = requests + 1
  /\ Registered(t)
  /\ LET a == GetTaskStatusAnswer(active_tasks[t], o)
     IN  /\ active_tasks' = [active_tasks EXCEPT ![t].status = a.status,
                                                 ![t].result = a.result,
                                                 ![t].web_url = a.web_url]
         /\ last_call' = Call(requests + 1, "get_task_status",
                              IF o.raises
                              THEN [task_id |-> t, raises |-> TRUE]
                              ELSE [task_id |-> t, raises |-> FALSE,
                                    snap |-> o.snap],
                              a)
  /\ tasks' = IF active_tasks[t].task = 0 \/ o.raises THEN tasks
              ELSE [tasks EXCEPT ![active_tasks[t].task] = Kept(o.snap)]
  /\ UNCHANGED <<sess, trace>>
  /\ UNCHANGED <<threads, messages>>

\* get_task_status for an id that is not registered (api.py 556-557).
GetTaskStatusNotFound(t) ==
  /\ FirstCall
  /\ requests < MaxRequests
  /\ requests' = requests + 1
  /\ ~Registered(t)
  /\ last_call' = Call(requests + 1, "get_task_status: HTTPException", t, HttpNotFound)
  /\ UNCHANGED <<active_tasks, tasks, sess, trace>>
  /\ UNCHANGED <<threads, messages>>

\* The message fields thread_api.process_message writes.
Message(status, response) == [status |-> status, response |-> response]

\* One tick of the loop of thread_api.process_message (thread_api.py
\* 337-373): a raising refresh() leaves through the handler of 380-384.
ThreadTick(o) ==
  IF o.raises THEN Message("failed", "Error: refresh raised")
  ELSE IF IsCompletedStatus(StatusOf(o.snap))
  THEN LET result == InlineResult(o.snap)
       IN  Message("completed",
                   IF ~TruthyStr(result) /\ TruthyStr(o.snap.web_url)
                   THEN UrlSentence(o.snap.web_url) ELSE result)
  ELSE IF IsFailedStatus(StatusOf(o.snap))
  THEN Message("failed", "Error: " \o o.snap.error)
  ELSE Message("<continue>", None)

\* thread_api.process_message whose first refresh() has the given outcome
\* and ends the loop.
ThreadProcessMessage(o) ==
  /\ FirstCall
  /\ ThreadTick(o).status # "<continue>"
  /\ last_call' = Call(requests, "thread_api.process_message",
                       IF o.raises THEN None ELSE o.snap, ThreadTick(o))
  /\ UNCHANGED <<active_tasks, tasks, requests, sess, trace>>
  /\ UNCHANGED <<threads, messages>>

NextShapes ==
  \/ RunTaskStream(TheTask)
  \/ \E snap \in ShapeSnapshots : CallExtractResult(snap)
  \/ \E snap \in ShapeSnapshots : RunTaskNoStreamShape(TheTask, snap)
  \/ \E snap \in ShapeSnapshots : FirstCall /\ GetTaskStatus(TheTask, Refreshed(snap))
  \/ FirstCall /\ GetTaskStatus(TheTask, Raises)
  \/ GetTaskStatusNotFound(TheTask)
  \/ CancelTaskNotFound(TheTask)
  \/ AttachStreamNotFound(TheTask)
  \/ \E snap \in ShapeSnapshots : ThreadProcessMessage(Refreshed(snap))
  \/ ThreadProcessMessage(Raises)
  \/ CallProcessMessage

SpecShapes == Init /\ [][NextShapes]_vars

(* ------------------- the polling loops, tick by tick ------------------- *)

\* AgentClient.process_message(message, stream=False) enters its loop
\* (api.py 176-179): the handle it polls is local to the call.
StartProcessMessage(s) ==
  /\ requests < MaxRequests
  /\ requests' = requests + 1
  /\ NextFree(s)
  /\ sess' = [sess EXCEPT ![s] =
                [IdleSession EXCEPT !.kind = "process_message", !.pc = "loop"]]
  /\ UNCHANGED <<active_tasks, tasks, trace, last_call>>
  /\ UNCHANGED <<threads, messages>>

\* One iteration of `for _ in range(max_retries)` (api.py 179-197): the
\* refresh(), then a return or the sleep.
ProcessMessageTick(s, o) ==
  /\ sess[s].kind = "process_message" /\ sess[s].pc = "loop"
  /\ sess[s].i < NonStreamRetries
  /\ Emit(s, <<Mark("refresh")>>)
  /\ IF NonStreamTick(o) = Continue
     THEN /\ sess' = [sess EXCEPT ![s].i = @ + 1]
          /\ UNCHANGED last_call
     ELSE /\ sess' = [sess EXCEPT ![s].pc = "done"]
          /\ last_call' = Call(requests, "process_message", None, NonStreamTick(o))
  /\ UNCHANGED <<active_tasks, tasks, requests>>
  /\ UNCHANGED <<threads, messages>>

\* The range is exhausted (api.py 199-203): the timeout outcome.
ProcessMessageTimeout(s) ==
  /\ sess[s].kind = "process_message" /\ sess[s].pc = "loop"
  /\ sess[s].i >= NonStreamRetries
  /\ sess' = [sess EXCEPT ![s].pc = "done"]
  /\ last_call' = Call(requests, "process_message", None,
                       Outcome("timeout", None, None, "Task timed out"))
  /\ UNCHANGED <<active_tasks, tasks, requests, trace>>
  /\ UNCHANGED <<threads, messages>>

\* The ids uuid4() hands out to threads and messages (thread_api.py 87, 187).
ThreadIds == {"th1"}
TheThread == "th1"
MessageIds == {"m1", "m2"}

\* What datetime.now().isoformat() returns on the tick i of a background
\* task: never null.
Stamps == <<"T0", "T1", "T2", "T3", "T4", "T5">>
Now(i) == Stamps[i + 1]

\* A fresh message as create_message stores it (thread_api.py 191-200).
PendingMessage(th) ==
  [thread_id |-> th, status |-> "pending", completed_at |-> None,
   task_id |-> None, response |-> None]

\* Finished without the assignment to completed_at.
Finished_NoStamp(msg, status, response, at) ==
  [msg EXCEPT !.status = status, !.response = response]

\* The three assignments with which process_message leaves (thread_api.py
\* 299-301, 361-363, 369-371, 378-380, 384-386, 389-391).
Finished(msg, status, response, at) ==
  [msg EXCEPT !.status = status, !.response = response, !.completed_at = at]

\* create_thread (thread_api.py 80-115): a new thread with no messages.
CreateThread(th) ==
  /\ requests < MaxRequests
  /\ th \notin DOMAIN threads
  /\ requests' = requests + 1
  /\ threads' = Store(threads, th, [messages |-> << >>])
  /\ last_call' = Call(requests + 1, "create_thread", None, th)
  /\ UNCHANGED <<active_tasks, tasks, sess, trace, messages>>

\* POST /{thread_id}/messages for a thread_id that is not in threads
\* (thread_api.py 183-184).
CreateMessageNotFound(th) ==
  /\ requests < MaxRequests
  /\ th \notin DOMAIN threads
  /\ requests' = requests + 1
  /\ last_call' = Call(requests + 1, "create_message: HTTPException", th,
                       HttpNotFound)
  /\ UNCHANGED <<active_tasks, tasks, sess, trace, threads, messages>>

\* POST /{thread_id}/messages (thread_api.py 165-222): the message is stored
\* as pending and process_message is handed to the background tasks; s is
\* the coroutine it will run as.
CreateMessage(s, th, m) ==
  /\ requests < MaxRequests
  /\ th \in DOMAIN threads
  /\ m \notin DOMAIN messages
  /\ NextFree(s)
  /\ requests' = requests + 1
  /\ messages' = Store(messages, m, PendingMessage(th))
  /\ threads' = [threads EXCEPT ![th].messages = Append(@, m)]
  /\ sess' = [sess EXCEPT ![s] =
                [IdleSession EXCEPT !.kind = "thread_message",
                                    !.pc = "scheduled", !.message_id = m]]
  /\ last_call' = Call(requests + 1, "create_message", th,
                       [message_id |-> m, status |-> "pending"])
  /\ UNCHANGED <<active_tasks, tasks, trace>>

\* process_message finds the SDK missing (thread_api.py 297-302).
ThreadMessageUnavailable(s) ==
  /\ sess[s].kind = "thread_message" /\ sess[s].pc = "scheduled"
  /\ sess' = [sess EXCEPT ![s].pc = "done"]
  /\ messages' = [messages EXCEPT ![sess[s].message_id] =
                    Finished(@, "failed", "Codegen SDK not available", Now(0))]
  /\ UNCHANGED <<active_tasks, tasks, requests, trace, last_call, threads>>

\* process_message marks the message as processing, and Agent(**kwargs) or
\* agent.run(content) raises (thread_api.py 304-317, 382-391).
ThreadMessageRaises(s) ==
  /\ sess[s].kind = "thread_message" /\ sess[s].pc = "scheduled"
  /\ sess' = [sess EXCEPT ![s].pc = "done"]
  /\ messages' = [messages EXCEPT ![sess[s].message_id] =
                    Finished(@, "failed", "Error: agent raised", Now(0))]
  /\ UNCHANGED <<active_tasks, tasks, requests, trace, last_call, threads>>

\* process_message marks the message as processing, runs the agent, stores
\* the task id and enters its loop (thread_api.py 304-338).
StartThreadMessage(s) ==
  /\ sess[s].kind = "thread_message" /\ sess[s].pc = "scheduled"
  /\ sess' = [sess EXCEPT ![s].pc = "loop"]
  /\ messages' = [messages EXCEPT ![sess[s].message_id] =
                    [@ EXCEPT !.status = "processing", !.task_id = "run"]]
  /\ UNCHANGED <<active_tasks, tasks, requests, trace, last_call, threads>>

\* ThreadMessageTick as a loop that does not count a tick whose status is
\* still in flight.
ThreadMessageTick_SameTick(s, o) ==
  /\ sess[s].kind = "thread_message" /\ sess[s].pc = "loop"
  /\ sess[s].i < NonStreamRetries
  /\ Emit(s, <<Mark("refresh")>>)
  /\ IF ThreadTick(o).status = "<continue>"
     THEN /\ UNCHANGED sess
          /\ UNCHANGED <<last_call, messages>>
     ELSE /\ sess' = [sess EXCEPT ![s].pc = "done"]
          /\ messages' = [messages EXCEPT ![sess[s].message_id] =
                            Finished(@, ThreadTick(o).status,
                                     ThreadTick(o).response, Now(sess[s].i))]
          /\ last_call' = Call(requests, "thread_api.process_message", None, ThreadTick(o))
  /\ UNCHANGED <<active_tasks, tasks, requests, threads>>

\* One iteration of the loop of thread_api.process_message (thread_api.py
\* 338-373): the refresh(), then the three assignments and a return, or the
\* sleep.
ThreadMessageTick(s, o) ==
  /\ sess[s].kind = "thread_message" /\ sess[s].pc = "loop"
  /\ sess[s].i < NonStreamRetries
  /\ Emit(s, <<Mark("refresh")>>)
  /\ IF ThreadTick(o).status = "<continue>"
     THEN /\ sess' = [sess EXCEPT ![s].i = @ + 1]
          /\ UNCHANGED <<last_call, messages>>
     ELSE /\ sess' = [sess EXCEPT ![s].pc = "done"]
          /\ messages' = [messages EXCEPT ![sess[s].message_id] =
                            Finished(@, ThreadTick(o).status,
                                     ThreadTick(o).response, Now(sess[s].i))]
          /\ last_call' = Call(requests, "thread_api.process_message", None, ThreadTick(o))
  /\ UNCHANGED <<active_tasks, tasks, requests, threads>>

\* ThreadMessageTimeout as an exit that leaves the message as it was.
ThreadMessageTimeout_NoWrite(s) ==
  /\ sess[s].kind = "thread_message" /\ sess[s].pc = "loop"
  /\ sess[s].i >= NonStreamRetries
  /\ sess' = [sess EXCEPT ![s].pc = "done"]
  /\ last_call' = Call(requests, "thread_api.process_message", None,
                       Message("timeout", "Task timed out after 5 minutes"))
  /\ UNCHANGED <<active_tasks, tasks, requests, trace, threads, messages>>

\* The range is exhausted (thread_api.py 375-380).
ThreadMessageTimeout(s) ==
  /\ sess[s].kind = "thread_message" /\ sess[s].pc = "loop"
  /\ sess[s].i >= NonStreamRetries
  /\ sess' = [sess EXCEPT ![s].pc = "done"]
  /\ messages' = [messages EXCEPT ![sess[s].message_id] =
                    Finished(@, "timeout", "Task timed out after 5 minutes",
                             Now(sess[s].i))]
  /\ last_call' = Call(requests, "thread_api.process_message", None,
                       Message("timeout", "Task timed out after 5 minutes"))
  /\ UNCHANGED <<active_tasks, tasks, requests, trace, threads>>

\* One polling loop per run, of any of the four kinds, over every refresh
\* outcome.
NextLoops ==
  \/ RunTaskStream(TheTask)
  \/ AttachStream(TheSession, TheTask)
  \/ Disconnect(TheSession)
  \/ AttachedCheck(TheSession)
  \/ AttachedDisconnected(TheSession)
  \/ AttachedPollRaises(TheSession)
  \/ \E snap \in Snapshots : AttachedPollCompleted(TheSession, snap)
  \/ \E snap \in Snapshots : AttachedPollFailed(TheSession, snap)
  \/ \E snap \in Snapshots : AttachedPollContinues(TheSession, snap)
  \/ AttachedTimeout(TheSession)
  \/ StartEnhanced(TheSession, TheTask)
  \/ EnhancedTickRaises(TheSession)
  \/ \E snap \in Snapshots : EnhancedTickCompleted(TheSession, snap)
  \/ \E snap \in Snapshots : EnhancedTickFailed(TheSession, snap)
  \/ \E snap \in Snapshots : EnhancedTickContinues(TheSession, snap)
  \/ EnhancedExhausted(TheSession)
  \/ StartProcessMessage(TheSession)
  \/ \E o \in Outcomes : ProcessMessageTick(TheSession, o)
  \/ ProcessMessageTimeout(TheSession)
  \/ CreateThread(TheThread)
  \/ CreateMessageNotFound(TheThread)
  \/ \E m \in MessageIds : CreateMessage(TheSession, TheThread, m)
  \/ ThreadMessageUnavailable(TheSession)
  \/ ThreadMessageRaises(TheSession)
  \/ StartThreadMessage(TheSession)
  \/ \E o \in Outcomes : ThreadMessageTick(TheSession, o)
  \/ ThreadMessageTimeout(TheSession)

SpecLoops == Init /\ [][NextLoops]_vars

(* ------------------- sessions of two tasks, interleaved ---------------- *)

\* The refresh outcomes of the interleaved runs: in flight, completed and
\* failed.
PairSnapshots ==
  [status : {"running", "COMPLETED", "Failed"}, result : {NoneV}, web_url : {None},
   error : {None}]

\* Two run_task requests with stream=true have registered t1 and t2, each
\* with its own handle (api.py 503-512); the requests are counted from here.
InitTwo ==
  /\ active_tasks = [t \in TaskIds |->
                       Entry(IF t = "t1" THEN 1 ELSE 2, 0, "initiated", None, None)]
  /\ tasks = <<FreshSnapshot, FreshSnapshot>>
  /\ requests = 0
  /\ sess = [s \in Sessions |-> IdleSession]
  /\ trace = [s \in Sessions |-> << >>]
  /\ last_call = NoCall
  /\ threads = << >>
  /\ messages = << >>

\* Streams of both kinds for either task, interleaved with one another and
\* with run_task, cancel_task and get_task_status requests.
NextTwo ==
  \/ \E t \in TaskIds : RunTaskStream(t)
  \/ \E t \in TaskIds : CancelTask(t)
  \/ \E t \in TaskIds, snap \in PairSnapshots : GetTaskStatus(t, Refreshed(snap))
  \/ \E t \in TaskIds : GetTaskStatus(t, Raises)
  \/ \E s \in Sessions, t \in TaskIds : AttachStream(s, t)
  \/ \E s \in Sessions : Disconnect(s)
  \/ \E s \in Sessions : AttachedCheck(s)
  \/ \E s \in Sessions : AttachedDisconnected(s)
  \/ \E s \in Sessions : AttachedPollRaises(s)
  \/ \E s \in Sessions, snap \in PairSnapshots : AttachedPollCompleted(s, snap)
  \/ \E s \in Sessions, snap \in PairSnapshots : AttachedPollFailed(s, snap)
  \/ \E s \in Sessions, snap \in PairSnapshots : AttachedPollContinues(s, snap)
  \/ \E s \in Sessions : AttachedTimeout(s)
  \/ \E s \in Sessions, t \in TaskIds : StartEnhanced(s, t)
  \/ \E s \in Sessions : EnhancedTickRaises(s)
  \/ \E s \in Sessions, snap \in PairSnapshots : EnhancedTickCompleted(s, snap)
  \/ \E s \in Sessions, snap \in PairSnapshots : EnhancedTickFailed(s, snap)
  \/ \E s \in Sessions, snap \in PairSnapshots : EnhancedTickContinues(s, snap)
  \/ \E s \in Sessions : EnhancedExhausted(s)

SpecTwo == InitTwo /\ [][NextTwo]_vars

(* ------------------- one long enhanced stream ------------------------- *)

\* The refresh outcomes of the long run: in flight, completed, failed.
StepSnapshots ==
  [status : {"running", "COMPLETED", "Failed"}, result : {NoneV}, web_url : {None},
   error : {None}]

\* A remote service that reports the status the generator starts with.
InitiatedSnapshot ==
  [status |-> "initiated", result |-> NoneV, web_url |-> None, error |-> None]

\* One stream_task_updates_enhanced generator over StepTicks ticks; at most
\* one of its refresh() calls raises, and the remote status may be
\* initiated on its first two ticks.
NextSteps ==
  \/ RunTaskStream(TheTask)
  \/ StartEnhancedLong(TheSession, TheTask)
  \/ /\ \A k \in DOMAIN trace[TheSession] : trace[TheSession][k].status # "error"
     /\ EnhancedTickRaises(TheSession)
  \/ \E snap \in StepSnapshots : EnhancedTickCompleted(TheSession, snap)
  \/ \E snap \in StepSnapshots : EnhancedTickFailed(TheSession, snap)
  \/ \E snap \in StepSnapshots : EnhancedTickContinues(TheSession, snap)
  \/ sess[TheSession].i < 2 /\ EnhancedTickContinues(TheSession, InitiatedSnapshot)
  \/ EnhancedExhausted(TheSession)

SpecSteps == Init /\ [][NextSteps]_vars

(* --------------------- the registry over whole runs -------------------- *)

\* A step of the generator of an attached stream: the event loop resumes it
\* whenever its sleep or its refresh() has returned.
GeneratorStep(s) ==
  \/ AttachedCheck(s)
  \/ AttachedDisconnected(s)
  \/ AttachedPollRaises(s)
  \/ \E snap \in Snapshots : AttachedPollCompleted(s, snap)
  \/ \E snap \in Snapshots : AttachedPollFailed(s, snap)
  \/ \E snap \in Snapshots : AttachedPollContinues(s, snap)
  \/ AttachedTimeout(s)

\* The requests that store, read and remove the entry of one task, and the
\* generator of its attached stream.
NextRegistry ==
  \/ RunTaskStream(TheTask)
  \/ RunTaskNoStream(TheTask)
  \/ \E snap \in Snapshots : FirstCall /\ GetTaskStatus(TheTask, Refreshed(snap))
  \/ FirstCall /\ GetTaskStatus(TheTask, Raises)
  \/ CancelTask(TheTask)
  \/ AttachStream(TheSession, TheTask)
  \/ Disconnect(TheSession)
  \/ GeneratorStep(TheSession)

\* A generator that can take a step takes it; no request of a client is
\* ever bound to arrive.
SpecRegistry == Init /\ [][NextRegistry]_vars /\ WF_sess(GeneratorStep(TheSession))

(* ------------------- the messages of the thread API -------------------- *)

\* A step of the background task process_message runs as: its start, one
\* iteration of its loop, or the exit after the last iteration.
BackgroundStep(s) ==
  \/ ThreadMessageUnavailable(s)
  \/ ThreadMessageRaises(s)
  \/ StartThreadMessage(s)
  \/ \E o \in Outcomes : ThreadMessageTick(s, o)
  \/ ThreadMessageTimeout(s)

\* The thread API: threads and messages are created, and each message's
\* background task runs over every refresh outcome, interleaved with the
\* other requests and the other background tasks.
NextThreads ==
  \/ \E th \in ThreadIds : CreateThread(th)
  \/ \E th \in ThreadIds : CreateMessageNotFound(th)
  \/ \E s \in Sessions, th \in ThreadIds, m \in MessageIds : CreateMessage(s, th, m)
  \/ \E s \in Sessions : ThreadMessageUnavailable(s)
  \/ \E s \in Sessions : ThreadMessageRaises(s)
  \/ \E s \in Sessions : StartThreadMessage(s)
  \/ \E s \in Sessions, o \in Outcomes : ThreadMessageTick(s, o)
  \/ \E s \in Sessions : ThreadMessageTimeout(s)

\* The event loop runs a scheduled background task and resumes it when its
\* sleep is over; client requests carry no fairness.
SpecThreads ==
  Init /\ [][NextThreads]_vars /\ \A s \in Sessions : WF_sess(BackgroundStep(s))

(* ------------------------- reading the traces -------------------------- *)

\* The statuses of a terminal event.
TerminalStatuses == {"completed", "failed", "timeout"}

IsTerminalEvent(x) == x.kind = "event" /\ x.status \in TerminalStatuses

TerminalPositions(tr) == {k \in DOMAIN tr : IsTerminalEvent(tr[k])}

RefreshPositions(tr) == {k \in DOMAIN tr : tr[k].kind = "refresh"}

\* refresh() calls made after the first mark of the given kind.
RefreshesAfter(tr, kind) ==
  Cardinality({k \in RefreshPositions(tr) :
                 \E j \in DOMAIN tr : j < k /\ tr[j].kind = kind})

\* A refresh() call that raised: the call is followed by the error event.
FailedRefreshPositions(tr) ==
  {k \in RefreshPositions(tr) :
     k + 1 \in DOMAIN tr /\ tr[k + 1].kind = "event" /\ tr[k + 1].status = "error"}

\* Events of a given status.
EventsOfStatus(tr, st) == {k \in DOMAIN tr : tr[k].kind = "event" /\ tr[k].status = st}

\* A result-bearing field of the handle is non-empty.  The code never reads
\* task.output, so result and web_url are the fields the model keeps.
ResultBearing(kept) == Truthy(kept.result) \/ TruthyStr(kept.web_url)

Ended(s) == sess[s].pc = "done"

\* The step in which session s ends.
Ends(s) == sess[s].pc # "done" /\ sess'[s].pc = "done"

\* What session s writes in a step.
NewItems(s) == SubSeq(trace'[s], Len(trace[s]) + 1, Len(trace'[s]))

\* Session s makes a refresh() that succeeds in this step: its
\* current_status is bound to the status it observed.
Observes(s) ==
  /\ \E k \in DOMAIN NewItems(s) : NewItems(s)[k].kind = "refresh"
  /\ \A k \in DOMAIN NewItems(s) :
       ~(NewItems(s)[k].kind = "event" /\ NewItems(s)[k].status = "error")

\* The status vocabulary of the classifier (spec 4.1).
CompletedSynonyms == {"completed", "complete", "finished", "done", "success", "successful"}
FailedSynonyms == {"failed", "error", "cancelled"}
InFlightStatuses == {"pending", "running", "in_progress", "active", "processing", "executing"}

\* The events among items whose status is st.
EventsIn(items, st) ==
  {k \in DOMAIN items : items[k].kind = "event" /\ items[k].status = st}

(* ------------------------------ claims --------------------------------- *)

\* C1: no session's event sequence contains more than one event whose status
\* is completed, failed or timeout.
C1_AtMostOneTerminalEvent ==
  \A s \in Sessions : Cardinality(TerminalPositions(trace[s])) <= 1

\* C2: every session that ended with its client still connected has emitted
\* a terminal event (completed, failed or timeout).
C2_EndsWithTerminalEvent ==
  \A s \in Sessions :
    (Ended(s) /\ ~sess[s].disconnected) => TerminalPositions(trace[s]) # {}

\* C3: a refresh() failure never ends the session: a session that ended
\* after a failed refresh() has seen a terminal event or has used up its
\* tick budget (or lost its client).
C3_RefreshFailureNeverEndsSession ==
  \A s \in Sessions :
    (Ended(s) /\ ~sess[s].disconnected /\ FailedRefreshPositions(trace[s]) # {})
      => \/ TerminalPositions(trace[s]) # {}
         \/ Cardinality(RefreshPositions(trace[s])) >= MaxRetries

\* C4: after a terminal event a session performs no refresh() and emits
\* nothing but the end-of-stream marker.
C4_NothingAfterTerminalEvent ==
  \A s \in Sessions : \A k \in TerminalPositions(trace[s]) :
    \A j \in DOMAIN trace[s] :
      j > k => trace[s][j].kind \in {"done", "disconnect", "cancel"}

\* C5: when a streaming session ends, its task_id is not a key of
\* active_tasks.
C5_EndedSessionUnregistered ==
  [][\A s \in Sessions : Ends(s) => sess[s].task_id \notin DOMAIN active_tasks']_vars

\* C6: a session that uses up its tick budget while its handle has no
\* result-bearing field ends with exactly one event of status timeout, none
\* of status failed or error, and with its task_id removed from active_tasks.
C6_TimeoutEventAndRemoval ==
  [][\A s \in Sessions :
       (/\ Ends(s)
        /\ sess[s].i >= MaxRetries
        /\ sess[s].current_status # Unbound
        /\ ~ResultBearing(tasks[sess[s].task]))
       => /\ Cardinality(EventsOfStatus(trace'[s], "timeout")) = 1
          /\ EventsOfStatus(trace'[s], "failed") = {}
          /\ sess[s].task_id \notin DOMAIN active_tasks']_vars

\* C7: after the client of an attached stream disconnects, the session makes
\* at most one further refresh(), its next visit of the loop top ends it, and
\* when it ends its task_id is removed from active_tasks.
C7_DisconnectStopsPolling ==
  [][\A s \in Sessions :
       /\ RefreshesAfter(trace'[s], "disconnect") <= 1
       /\ (sess[s].disconnected /\ sess[s].pc = "check" /\ sess'[s] # sess[s])
            => sess'[s].pc = "done"
       /\ (sess[s].disconnected /\ Ends(s))
            => sess[s].task_id \notin DOMAIN active_tasks']_vars

\* C7, witness: a disconnected attached session that made one more refresh(),
\* ended, and is no longer registered.
C7_Witness ==
  \E s \in Sessions :
    /\ sess[s].kind = "attached" /\ Ended(s) /\ sess[s].disconnected
    /\ RefreshesAfter(trace[s], "disconnect") = 1
    /\ sess[s].task_id \notin DOMAIN active_tasks

\* C8: after cancel_task(task_id) an attached session polling that task
\* makes at most one further refresh(), and the call leaves task_id out of
\* active_tasks.
C8_CancelStopsPolling ==
  [][\A s \in Sessions :
       sess[s].kind = "attached" =>
         /\ RefreshesAfter(trace'[s], "cancel") <= 1
         /\ trace'[s] = Append(trace[s], Mark("cancel"))
              => sess[s].task_id \notin DOMAIN active_tasks']_vars

\* C9: at most one polling loop is active per task_id.
C9_OnePollingLoopPerTask ==
  \A s1, s2 \in Sessions :
    (s1 # s2 /\ Running(s1) /\ Running(s2)) => sess[s1].task_id # sess[s2].task_id

\* C10: an entry of active_tasks is never overwritten: as long as a task_id
\* stays registered it keeps the handle and the creation time it was stored
\* with.
C10_EntryNeverOverwritten ==
  [][\A t \in (DOMAIN active_tasks) \cap (DOMAIN active_tasks') :
       /\ active_tasks'[t].task = active_tasks[t].task
       /\ active_tasks'[t].created_at = active_tasks[t].created_at]_vars

\* C11: removing the same task_id a second time reports no error and leaves
\* the registry as the first removal left it, for a second cancel_task call
\* as for the teardown of a session whose task_id is already removed.
C11_UnregisterIdempotent ==
  [][/\ \A t \in TaskIds :
          (/\ last_call.op = "cancel_task" /\ last_call.arg = t
           /\ last_call.out = HttpOk
           /\ ~Registered(t)
           /\ last_call'.at = requests'  /\ last_call'.at # last_call.at
           /\ last_call'.op = "cancel_task" /\ last_call'.arg = t)
          => /\ last_call'.out = HttpOk
             /\ active_tasks' = active_tasks
     /\ \A s \in Sessions :
          (sess[s].kind = "attached" /\ Ends(s) /\ ~Registered(sess[s].task_id))
          => active_tasks' = active_tasks]_vars

\* C12: a session that uses up its tick budget without a terminal status
\* emits a completed event when a result-bearing field of its handle is
\* non-empty, with the result _extract_result gives for the handle, and
\* emits the timeout event, and no completed event, when all are empty.
C12_ExhaustionCompletesFromResult ==
  [][\A s \in Sessions :
       (/\ Ends(s)
        /\ sess[s].i >= MaxRetries
        /\ sess[s].current_status # Unbound)
       => IF ResultBearing(tasks[sess[s].task])
          THEN /\ EventsIn(NewItems(s), "timeout") = {}
               /\ \E k \in EventsIn(NewItems(s), "completed") :
                    NewItems(s)[k].result = ExtractResult(tasks[sess[s].task])
          ELSE /\ EventsIn(NewItems(s), "completed") = {}
               /\ EventsIn(NewItems(s), "timeout") # {}]_vars

\* C13: a tick that observes any spelling of completed, complete, finished,
\* done, success or successful emits the completed event and ends the
\* session on that tick.
C13_CompletedSynonymsComplete ==
  [][\A s \in Sessions :
       (Observes(s) /\ sess'[s].current_status \in CompletedSynonyms)
       => /\ EventsIn(NewItems(s), "completed") # {}
          /\ sess'[s].pc = "done"]_vars

\* C14: a tick that observes any spelling of failed, error or cancelled
\* emits the failed event and ends the session on that tick.
C14_FailedSynonymsFail ==
  [][\A s \in Sessions :
       (Observes(s) /\ sess'[s].current_status \in FailedSynonyms)
       => /\ EventsIn(NewItems(s), "failed") # {}
          /\ sess'[s].pc = "done"]_vars

\* C15: a tick that observes a status outside the in-flight set (and not one
\* of the completed or failed spellings, which the earlier rules decide)
\* while result or web_url is non-empty emits the completed event;
\* for status unknown_status_xyz with web_url http://x and no result its
\* result is the web_url sentence.
C15_DefensiveCompletion ==
  [][\A s \in Sessions :
       (/\ Observes(s)
        /\ sess'[s].current_status \notin
             (InFlightStatuses \cup FailedSynonyms \cup CompletedSynonyms)
        /\ ResultBearing(tasks'[sess[s].task]))
       => /\ EventsIn(NewItems(s), "completed") # {}
          /\ (/\ sess'[s].current_status = "unknown_status_xyz"
              /\ tasks'[sess[s].task] = [result |-> NoneV, web_url |-> "http://x"])
             => \E k \in EventsIn(NewItems(s), "completed") :
                  NewItems(s)[k].result = UrlSentence("http://x")]_vars

\* C16 as stated: a session emits no completed event while the status it
\* observed last is in the in-flight set.
C16_NoCompletedWhileInFlight ==
  [][\A s \in Sessions :
       sess'[s].current_status \in InFlightStatuses
       => EventsIn(NewItems(s), "completed") = {}]_vars

\* C16 as amended: a tick that observes an in-flight status emits no
\* completed event and does not end the session, whatever the web_url is.
C16_InFlightTickKeepsRunning ==
  [][\A s \in Sessions :
       (Observes(s) /\ sess'[s].current_status \in InFlightStatuses)
       => /\ EventsIn(NewItems(s), "completed") = {}
          /\ sess'[s].pc # "done"]_vars

\* C16, witness: a session that observed running with web_url http://x on a
\* tick, is still polling and has emitted no completed event.
C16_Witness ==
  \E s \in Sessions :
    /\ Running(s) /\ sess[s].i >= 1
    /\ sess[s].current_status = "running"
    /\ tasks[sess[s].task].web_url = "http://x"
    /\ EventsOfStatus(trace[s], "completed") = {}

\* C17: _extract_result returns for every snapshot shape, never raising and
\* never returning None or an empty string, and returns exactly
\* "Task completed successfully." when result, output and web_url are all
\* empty or missing.
C17_ExtractResultTotal ==
  last_call.op = "_extract_result" =>
    /\ last_call.out \notin {Raised, None, ""}
    /\ (/\ ~Truthy(last_call.arg.result)
        /\ ~TruthyStr(last_call.arg.output)
        /\ ~TruthyStr(last_call.arg.web_url))
       => last_call.out = DefaultSentence

\* C17, witness: _extract_result was called on a snapshot without a result
\* attribute, output or web_url and returned the default sentence.
C17_Witness ==
  /\ last_call.op = "_extract_result"
  /\ last_call.arg.result = AbsentV
  /\ last_call.arg.output = None /\ last_call.arg.web_url = None
  /\ last_call.out = DefaultSentence

\* A completed outcome's result is a non-empty string.
NonEmptyString(x) == x \notin {None, "", Raised}

\* C18: every completed outcome delivered to a client carries a non-empty
\* result string: the completed events of the streaming loops, the completed
\* answers of run_task (stream=false) and get_task_status, and the completed
\* thread message.
C18_CompletedCarriesResult ==
  /\ \A s \in Sessions : \A k \in EventsOfStatus(trace[s], "completed") :
       NonEmptyString(trace[s][k].result)
  /\ (last_call.op \in {"run_task", "get_task_status"}
        /\ last_call.out.status = "completed")
       => NonEmptyString(last_call.out.result)
  /\ (last_call.op = "thread_api.process_message"
        /\ last_call.out.status = "completed")
       => NonEmptyString(last_call.out.response)

\* C19: for a completed snapshot _extract_result returns a non-empty string
\* result unchanged ("Hello" gives "Hello") and, for a dict result with a
\* non-empty content entry, the value under content.
C19_ExtractStringAndContent ==
  last_call.op = "_extract_result" =>
    /\ (last_call.arg.result.type = "str" /\ last_call.arg.result.s # "")
       => last_call.out = last_call.arg.result.s
    /\ (last_call.arg.result.type = "dict"
         /\ TruthyStr(Get(last_call.arg.result, "content")))
       => last_call.out = Get(last_call.arg.result, "content")

\* C19, witness: _extract_result was called on a dict result holding both
\* content "X" and response "R" and returned "X".
C19_Witness ==
  /\ last_call.op = "_extract_result"
  /\ last_call.arg.result.type = "dict"
  /\ Get(last_call.arg.result, "content") = "X"
  /\ Get(last_call.arg.result, "response") = "R"
  /\ last_call.out = "X"

\* The probe of the fallback chain (spec 4.3, steps 1 and 2): a plain
\* string, or the first non-empty value among content, response, message,
\* text, answer of a map.
RECURSIVE ProbeKeys(_, _)
ProbeKeys(d, i) ==
  IF i > Len(Keys) THEN None
  ELSE IF TruthyStr(Get(d, Keys[i])) THEN Get(d, Keys[i])
  ELSE ProbeKeys(d, i + 1)

Probe(v) ==
  CASE v.type = "str"  -> v.s
    [] v.type = "dict" -> ProbeKeys(v, 1)
    [] OTHER           -> None

\* The fallback chain, first non-empty wins: result, summary, output, the
\* web_url sentence, the default sentence.
FallbackChain(snap) ==
  IF TruthyStr(Probe(snap.result)) THEN Probe(snap.result)
  ELSE IF TruthyStr(Probe(snap.summary)) THEN Probe(snap.summary)
  ELSE IF TruthyStr(snap.output) THEN snap.output
  ELSE IF TruthyStr(snap.web_url) THEN UrlSentence(snap.web_url)
  ELSE DefaultSentence

\* C20: _extract_result follows the full fallback chain: result as string,
\* result as map probed in the order content, response, message, text,
\* answer, then summary, then output, then the web_url sentence, then the
\* default sentence.
C20_FullFallbackChain ==
  last_call.op = "_extract_result" => last_call.out = FallbackChain(last_call.arg)

\* The statuses that report something gone wrong.
ErrorStatuses == {"failed", "error", "timeout"}

\* C21: every event and every process_message outcome of status failed,
\* error or timeout carries a non-empty error message, and a failed event
\* is the only failed event of its session and is followed by no refresh().
C21_FailuresCarryMessage ==
  /\ \A s \in Sessions : \A k \in DOMAIN trace[s] :
       (trace[s][k].kind = "event" /\ trace[s][k].status \in ErrorStatuses)
       => TruthyStr(trace[s][k].error)
  /\ \A s \in Sessions : \A k \in EventsOfStatus(trace[s], "failed") :
       /\ EventsOfStatus(trace[s], "failed") = {k}
       /\ \A j \in RefreshPositions(trace[s]) : j < k
  /\ (last_call.op = "process_message" /\ last_call.out.status \in ErrorStatuses)
       => TruthyStr(last_call.out.error)

\* C22: a run_task request with stream=true whose task was created is
\* answered successfully for that task_id, and the task_id is a key of
\* active_tasks when the answer is produced.
C22_StreamRequestAnswered ==
  [][Len(tasks') > Len(tasks)
       => /\ last_call'.at = requests'
          /\ last_call'.out = HttpOk
          /\ last_call'.arg \in DOMAIN active_tasks']_vars

\* The answers of the three lookups that found no entry.
NotFoundOps ==
  {"cancel_task", "get_task_status: HTTPException", "stream_task_events: HTTPException"}

\* C23: stream_task_events, get_task_status and cancel_task on a task_id that
\* is not a key of active_tasks answer 404, start no polling (no session, no
\* refresh, no item) and leave active_tasks unchanged.
C23_UnknownIdNotFound ==
  [][\A t \in TaskIds :
       (/\ ~Registered(t)
        /\ last_call'.at = requests'
        /\ last_call'.at # last_call.at
        /\ last_call'.op \in NotFoundOps
        /\ last_call'.arg = t)
       => /\ last_call'.out = HttpNotFound
          /\ active_tasks' = active_tasks
          /\ tasks' = tasks
          /\ sess' = sess
          /\ trace' = trace]_vars

\* The three lookups have answered 404 one after the other.
C23_Witness ==
  /\ last_call.op = "stream_task_events: HTTPException"
  /\ last_call.out = HttpNotFound
  /\ last_call.at = MaxRequests
  /\ active_tasks = << >>

\* What the client of a stream receives: the events, the comments and the
\* end-of-stream marker, in order.
StreamItems(tr) == SelectSeq(tr, LAMBDA x : x.kind \in {"event", "comment", "done"})

\* C24: every stream that has ended without a client disconnect has exactly
\* one [DONE] marker, and the marker is its final item.
C24_EndsWithOneDoneMarker ==
  \A s \in Sessions :
    (Ended(s) /\ ~sess[s].disconnected)
    => LET items == StreamItems(trace[s])
       IN  /\ Len(items) > 0
           /\ items[Len(items)] = DoneMarker
           /\ Cardinality({k \in DOMAIN items : items[k] = DoneMarker}) = 1

\* C25: a stream attached through stream_task_events that has emitted a
\* completed event has emitted, before it, an event carrying a current_step.
C25_StepBeforeCompleted ==
  \A s \in Sessions :
    sess[s].kind = "attached"
    => \A k \in EventsOfStatus(trace[s], "completed") :
         \E j \in 1 .. (k - 1) :
           trace[s][j].kind = "event" /\ trace[s][j].current_step # None

\* A heartbeat: the SSE comment of event_generator or the heartbeat event of
\* stream_task_updates_enhanced.
IsHeartbeat(x) == x.kind \in {"comment", "event"} /\ x.status = "heartbeat"

\* C26: every attached stream that has written its [DONE] marker has emitted
\* a heartbeat before it, also when the first poll finds the task completed
\* or failed.
C26_HeartbeatBeforeDone ==
  \A s \in Sessions :
    sess[s].kind = "attached"
    => \A k \in DOMAIN trace[s] :
         trace[s][k] = DoneMarker
         => \E j \in 1 .. (k - 1) : IsHeartbeat(trace[s][j])

\* The tick budget of a loop: max_retries of the streaming loops, max_retries
\* of the non-streaming ones.
LoopBudget(kind) ==
  IF kind \in {"process_message", "thread_message"} THEN NonStreamRetries ELSE MaxRetries

\* C27: a polling loop makes at most its tick budget of refresh() calls,
\* the calls that raised included, whatever the outcomes of the calls.
C27_RefreshesWithinBudget ==
  \A s \in Sessions :
    /\ Cardinality(RefreshPositions(trace[s])) <= LoopBudget(sess[s].kind)
    /\ sess[s].i <= LoopBudget(sess[s].kind)

\* A streaming loop has spent its whole budget, a raising refresh() among
\* the calls, and has ended.
C27_Witness ==
  \E s \in Sessions :
    /\ sess[s].kind = "enhanced"
    /\ Ended(s)
    /\ Cardinality(RefreshPositions(trace[s])) = MaxRetries
    /\ FailedRefreshPositions(trace[s]) # {}

\* C28: an entry of active_tasks whose stored status is terminal (completed,
\* failed or timeout) is eventually removed, the entries stored by a
\* non-streaming run_task and those get_task_status found completed included.
C28_TerminalEntryRemoved ==
  \A t \in TaskIds :
    (Registered(t) /\ active_tasks[t].status \in TerminalStatuses) ~> ~Registered(t)

\* C30: a get_task_status whose refresh() raises still answers, with the
\* status, result and web_url stored for the task_id, and leaves the stored
\* entry and the handle as they were.
C30_RefreshErrorAnswersStored ==
  [][(/\ last_call'.at = requests'
      /\ last_call'.at # last_call.at
      /\ last_call'.op = "get_task_status"
      /\ last_call'.arg.raises
      /\ active_tasks[TheTask].task # 0)
     => /\ last_call'.out = [status  |-> active_tasks[TheTask].status,
                             result  |-> active_tasks[TheTask].result,
                             web_url |-> active_tasks[TheTask].web_url]
        /\ active_tasks' = active_tasks
        /\ tasks' = tasks]_vars

\* get_task_status has answered for an entry with a handle whose refresh()
\* raised.
C30_Witness ==
  /\ last_call.op = "get_task_status"
  /\ last_call.arg.raises
  /\ Registered(TheTask)
  /\ active_tasks[TheTask].task # 0
  /\ last_call.out.status = active_tasks[TheTask].status

\* Session s takes a step, or is written to, in this step.
OwnStep(s) == sess'[s] # sess[s] \/ trace'[s] # trace[s]

\* A request for task id t is answered in this step: run_task, cancel_task
\* or get_task_status.
RequestFor(t) ==
  /\ last_call'.at # last_call.at
  /\ \/ last_call'.op \in {"run_task: HTTPException", "cancel_task"} /\ last_call'.arg = t
     \/ last_call'.op = "get_task_status" /\ last_call'.arg.task_id = t

\* Everything session s reads and writes is as it was: its position and
\* locals, the events it has emitted and its handle.
Untouched(s) ==
  /\ sess'[s] = sess[s]
  /\ trace'[s] = trace[s]
  /\ sess[s].task # 0 => tasks'[sess[s].task] = tasks[sess[s].task]

\* C29: a step for another task id (a step of a session of that id, its
\* insertion into the registry, a cancel_task or a get_task_status call for
\* it) leaves a running session untouched, so the events of a session are
\* those of its own steps under every interleaving.
C29_OtherTasksDoNotInterfere ==
  [][\A s \in Sessions :
       Running(s)
       => /\ \A t \in TaskIds \ {sess[s].task_id} : RequestFor(t) => Untouched(s)
          /\ \A r \in Sessions \ {s} :
               (OwnStep(r) /\ sess'[r].task_id # sess[s].task_id) => Untouched(s)]_vars

\* Two streams for different task ids have both polled and emitted, and a
\* cancel_task or get_task_status was answered meanwhile.
C29_Witness ==
  \E s, r \in Sessions :
    /\ Running(s) /\ sess[r].pc # "idle"
    /\ sess[s].task_id # sess[r].task_id
    /\ RefreshPositions(trace[s]) # {}
    /\ RefreshPositions(trace[r]) # {}
    /\ last_call.op \in {"cancel_task", "get_task_status"}

\* The status events of a stream: the events that report the status of a
\* poll tick (neither a step event, nor a heartbeat, nor an error event).
StatusPositions(tr) ==
  {k \in DOMAIN tr : /\ tr[k].kind = "event"
                     /\ tr[k].current_step = None
                     /\ tr[k].status \notin {"heartbeat", "error"}}

\* C31: of two status events of a session with no status event in between,
\* the second reports another status than the first: a tick whose status is
\* that of the previous tick emits no second status event.
C31_StatusEventOnlyOnChange ==
  \A s \in Sessions :
    \A j, k \in StatusPositions(trace[s]) :
      (j < k /\ \A m \in StatusPositions(trace[s]) : ~(j < m /\ m < k))
      => trace[s][j].status # trace[s][k].status

\* The step events of a stream, in order of emission.
StepEvents(tr) ==
  SelectSeq(tr, LAMBDA x : x.kind = "event" /\ x.status = "running"
                           /\ x.current_step # None)

\* C32: no two successive step events of a session carry the same
\* current_step.
C32_NoRepeatedStep ==
  \A s \in Sessions :
    \A k \in 1 .. (Len(StepEvents(trace[s])) - 1) :
      StepEvents(trace[s])[k].current_step # StepEvents(trace[s])[k + 1].current_step

\* The items of the tick whose refresh() is at position k: those up to the
\* next refresh().
TickItems(tr, k) ==
  {m \in DOMAIN tr : m > k /\ \A j \in RefreshPositions(tr) : ~(k < j /\ j <= m)}

\* The index i of the tick whose refresh() is at position k.
TickIndex(tr, k) == Cardinality({j \in RefreshPositions(tr) : j < k})

\* A heartbeat is due on every tick of event_generator and on the ticks
\* with i % 5 == 0 of stream_task_updates_enhanced.
HeartbeatDue(s, k) ==
  sess[s].kind = "attached" \/ TickIndex(trace[s], k) % HeartbeatEvery = 0

\* C33: in a session that goes on, every tick on which a heartbeat is due
\* and that emits neither a terminal event nor [DONE] emits its heartbeat,
\* whatever the outcome of its refresh().
C33_HeartbeatWhateverTheOutcome ==
  \A s \in Sessions : \A k \in RefreshPositions(trace[s]) :
    (/\ Running(s)
     /\ HeartbeatDue(s, k)
     /\ \A m \in TickItems(trace[s], k) :
          ~IsTerminalEvent(trace[s][m]) /\ trace[s][m] # DoneMarker)
    => \E m \in TickItems(trace[s], k) : IsHeartbeat(trace[s][m])

\* C34: the first item of every stream_task_updates_enhanced session is the
\* event of status initiated, ahead of the first refresh(), and no later
\* event of the session has that status.
C34_InitiatedFirstAndOnce ==
  \A s \in Sessions :
    (sess[s].kind = "enhanced")
    => /\ Len(trace[s]) > 0
       /\ trace[s][1].kind = "event" /\ trace[s][1].status = "initiated"
       /\ \A k \in 2 .. Len(trace[s]) :
            ~(trace[s][k].kind = "event" /\ trace[s][k].status = "initiated")

\* An enhanced session has polled a task whose remote status is initiated
\* and has gone on polling.
C34_Witness ==
  \E s \in Sessions :
    /\ sess[s].kind = "enhanced"
    /\ sess[s].current_status = "initiated"
    /\ Cardinality(RefreshPositions(trace[s])) >= 2

\* The last event a session has emitted.
LastEvent(tr) ==
  tr[CHOOSE k \in DOMAIN tr :
       /\ tr[k].kind = "event"
       /\ \A j \in DOMAIN tr : tr[j].kind = "event" => j <= k]

\* Session s has left its loop by exhausting its tick budget, every one of
\* its refresh() calls having succeeded with a status in flight.
ExhaustedInFlight(s) ==
  /\ Ended(s) /\ ~sess[s].disconnected
  /\ sess[s].i >= sess[s].max_retries
  /\ \A k \in DOMAIN trace[s] : trace[s][k].status # "error"

\* C35: an event_generator session and a stream_task_updates_enhanced
\* session that saw the same refresh outcomes on the same handle end with a
\* terminal event of the same status and payload.  Stated for the sequences
\* the state identifies: every tick in flight up to the budget, the same
\* last status, the handle without web_url at both exits (neither session
\* was forced to completed).
C35_LoopsAgreeOnTerminalOutcome ==
  \A s, r \in Sessions :
    (/\ sess[s].kind = "attached" /\ sess[r].kind = "enhanced"
     /\ sess[s].task = sess[r].task
     /\ sess[s].current_status = sess[r].current_status
     /\ ExhaustedInFlight(s) /\ ExhaustedInFlight(r)
     /\ EventsOfStatus(trace[s], "completed") = {}
     /\ EventsOfStatus(trace[r], "completed") = {})
    => /\ LastEvent(trace[s]).status = LastEvent(trace[r]).status
       /\ LastEvent(trace[s]).error = LastEvent(trace[r]).error
       /\ LastEvent(trace[s]).result = LastEvent(trace[r]).result

\* C36: on a completed snapshot the copies of the result extraction give the
\* value AgentClient._extract_result gives: the inline copy of the streaming
\* loops, the copy in get_task_status (for an entry that stores no result
\* yet) and the copy in thread_api.process_message.
C36_ExtractionCopiesAgree ==
  /\ last_call.op = "_extract_result"
       => last_call.out = ExtractInline(last_call.arg)
  /\ (last_call.op = "get_task_status" /\ ~last_call.arg.raises
        /\ IsCompletedStatus(last_call.out.status))
       => last_call.out.result = ExtractResult(last_call.arg.snap)
  /\ (last_call.op = "thread_api.process_message"
        /\ last_call.out.status = "completed")
       => last_call.out.response = ExtractResult(last_call.arg)

\* C37: a run_task request that is answered with an error leaves
\* active_tasks as it was before the request.
C37_FailedRunTaskLeavesNoEntry ==
  [][(/\ last_call'.at = requests'
      /\ last_call'.at # last_call.at
      /\ last_call'.op = "run_task: HTTPException")
     => active_tasks' = active_tasks]_vars

\* The statuses with which process_message leaves a message.
FinalStatuses == {"completed", "failed", "timeout"}

\* Message m is stored with one of the final statuses.
Finalised(m) == m \in DOMAIN messages /\ messages[m].status \in FinalStatuses

\* C38: every message create_message stored eventually has one of the
\* statuses completed, failed and timeout, whatever the start of the agent
\* and the refresh() calls do, and from then on its status, response and
\* completed_at stay as they are.
C38_MessageFinalisedForGood ==
  /\ \A m \in MessageIds : (m \in DOMAIN messages) ~> Finalised(m)
  /\ [][\A m \in MessageIds :
          Finalised(m) =>
            /\ m \in DOMAIN messages'
            /\ messages'[m].status = messages[m].status
            /\ messages'[m].response = messages[m].response
            /\ messages'[m].completed_at = messages[m].completed_at]_vars

\* Two messages are finalised, one by the exit after the last tick and one
\* by a refresh() that found the task completed after a tick in flight.
C38_Witness ==
  /\ Finalised("m1") /\ Finalised("m2")
  /\ \E m \in MessageIds : messages[m].status = "timeout"
  /\ \E m \in MessageIds :
       messages[m].status = "completed" /\ messages[m].completed_at = Now(1)

\* C39: a stored message has a completed_at exactly when its status is
\* completed, failed or timeout; a pending or processing message has none.
C39_CompletedAtIffFinal ==
  \A m \in DOMAIN messages :
    /\ (messages[m].completed_at # None) <=> (messages[m].status \in FinalStatuses)
    /\ messages[m].status \in {"pending", "processing"} => messages[m].completed_at = None

\* One message is processing with no completed_at while another one has
\* failed at the start of the agent and has one.
C39_Witness ==
  \E m, n \in DOMAIN messages :
    /\ messages[m].status = "processing" /\ messages[m].completed_at = None
    /\ messages[n].status = "failed" /\ messages[n].completed_at = Now(0)
    /\ messages[n].response = "Error: agent raised"

====
